---- MODULE Spec2Model ----
(***************************************************************************)
(* Voice chatbot API (app/main.py, app/stt.py, app/llm.py, app/tts.py).    *)
(*                                                                         *)
(* One POST /voice-chat request is a run of the coroutine voice_chat.  The *)
(* coroutine contains no await, so the event loop runs one handler from    *)
(* its first line to its return or raise before another handler starts.    *)
(* Each blocking call of the handler (subprocess, collaborator request,    *)
(* file write) ends one step of the model.                                 *)
(***************************************************************************)
EXTENDS Integers, Sequences, FiniteSets, TLC

\* ------------------------------------------------------------------ bounds

\* Number of requests the clients send during one run of the server.
NumRequests == 2

Requests == 1..NumRequests

\* ------------------------------------------------------------------ texts

\* A text is a sequence of tokens; " " and "\n" are the whitespace tokens.
Whitespace == {" ", "\n"}

RECURSIVE LStrip(_)
LStrip(s) ==
  IF s # <<>> /\ Head(s) \in Whitespace THEN LStrip(Tail(s)) ELSE s

RECURSIVE RStrip(_)
RStrip(s) ==
  IF s # <<>> /\ s[Len(s)] \in Whitespace
  THEN RStrip(SubSeq(s, 1, Len(s) - 1))
  ELSE s

\* str.strip()
Strip(s) == RStrip(LStrip(s))

\* Texts the whisper CLI may leave in transcription.txt.
TranscriptTexts == { <<" ", "halo", "\n">>, <<"\n">> }

\* Texts the conversational collaborator may answer with ("" included).
ReplyTexts == { <<"hai">>, <<>> }

\* ---------------------------------------------------------------- filenames

\* A filename is a sequence of characters.
Filenames ==
  { <<"a", ".", "w", "a", "v">>,
    <<"a", ".", "W", "A", "V">>,
    <<"a", ".", "m", "p", "3">>,
    <<"a", ".", "o", "g", "g">>,
    <<"a", ".", "m", "4", "a">>,
    <<"a", ".", "t", "x", "t">>,
    <<".", "w", "a", "v">>,
    <<"w", "a", "v">>,
    <<"a", ".", "w", "a", "v", "e">>,
    <<"a", ".", "w", "a", "v", "/", "b">> }

LowerChar(c) ==
  CASE c = "W" -> "w"
    [] c = "A" -> "a"
    [] c = "V" -> "v"
    [] OTHER -> c

\* str.lower()
Lower(s) == [i \in 1..Len(s) |-> LowerChar(s[i])]

\* str.rfind(c) with positions counted from 1; 0 when c does not occur.
RFind(s, c) ==
  LET hits == {i \in 1..Len(s) : s[i] = c}
  IN  IF hits = {} THEN 0 ELSE CHOOSE i \in hits : \A j \in hits : j <= i

\* os.path.splitext(p)[1]: the text from the last dot on, provided the dot
\* comes after the last separator and after a character of the base name
\* that is not a dot.
SplitExt(p) ==
  LET sepIndex == RFind(p, "/")
      dotIndex == RFind(p, ".")
  IN  IF dotIndex > sepIndex
         /\ \E i \in (sepIndex + 1)..(dotIndex - 1) : p[i] # "."
      THEN SubSeq(p, dotIndex, Len(p))
      ELSE <<>>

ALLOWED_AUDIO_EXTENSIONS ==
  { <<".", "w", "a", "v">>, <<".", "m", "p", "3">>,
    <<".", "o", "g", "g">>, <<".", "m", "4", "a">> }

\* file_ext without .lower()
FileExtCaseSensitive(fn) == SplitExt(fn)

\* file_ext of voice_chat
FileExt(fn) == Lower(SplitExt(fn))

Allowed(ext) == ext \in ALLOWED_AUDIO_EXTENSIONS

\* ------------------------------------------------------------------ state

VARIABLES
  pc,           \* pc[r]: where request r is (see Positions)
  loop,         \* the request whose handler the event loop is running, or 0
  shutdown,     \* the shutdown event has been handled
  req,          \* req[r]: the local variables of the handler of request r
  dirs,         \* the temporary directories that exist
  files,        \* the temporary files that exist
  TEMP_FILES,   \* the module-level list of main.py
  history,      \* chat.history of llm.py
  historyFile,  \* chat_history.json
  calls         \* the calls of generate_response so far, in call order

vars ==
  << pc, loop, shutdown, req, dirs, files, TEMP_FILES, history, historyFile,
     calls >>

Positions ==
  { "idle", "pending", "save", "stt", "stt_run", "llm", "llm_wait",
    "llm_save", "tts", "tts_run", "done", "delivered" }

\* The positions inside the body of voice_chat.
Running ==
  { "save", "stt", "stt_run", "llm", "llm_wait", "llm_save", "tts",
    "tts_run", "done" }

\* A text no stage has produced yet.
NoText == << "<unset>" >>

\* Paths.  A uuid4 name is unique to the call that draws it, so a path is
\* named by its kind and the request whose handler created it.
Path(k, r) == [k |-> k, r |-> r]

NoPath == Path("none", 0)

\* The files a TemporaryDirectory holds, by the kind of the directory.
Contents(k) ==
  IF k = "scope" THEN {"upload"} ELSE {"sttaudio", "stttxt"}

\* A directory whose removal leaves its files behind.
FilesWithoutNothing(fs, d) == fs

\* What exists after TemporaryDirectory.__exit__ of directory d.
FilesWithout(fs, d) == {f \in fs : ~(f.r = d.r /\ f.k \in Contents(d.k))}

\* ------------------------------------------------------------------- timing
\* What time.time() - start_time can be at the end of a stage, in tenths of
\* a millisecond.  time.time() is the wall clock, so a difference is
\* negative when the clock was set back during the stage.  No value lies
\* half way between two milliseconds, where the digit printed depends on
\* the binary value of the float.
Elapsed == {0 - 6, 4, 2346}

\* A clock on which every stage takes the same time.
Tick == {12}

DigitChars == << "0", "1", "2", "3", "4", "5", "6", "7", "8", "9" >>

RECURSIVE Digits(_)
\* The decimal digits of the natural number n.
Digits(n) ==
  IF n < Len(DigitChars) THEN << DigitChars[n + 1] >>
  ELSE Digits(n \div Len(DigitChars)) \o << DigitChars[(n % Len(DigitChars)) + 1] >>

\* f"{x:.3f}s" for x = t / 10000 seconds: x rounded to three decimals, the
\* sign kept even when the rounding gives zero, then the letter s.
Format(t) ==
  LET a  == IF t < 0 THEN 0 - t ELSE t
      ms == (a + 5) \div 10
      fr == ms % 1000
  IN  (IF t < 0 THEN << "-" >> ELSE <<>>)
        \o Digits(ms \div 1000) \o << "." >>
        \o << DigitChars[(fr \div 100) + 1], DigitChars[((fr \div 10) % 10) + 1],
              DigitChars[(fr % 10) + 1] >>
        \o << "s" >>

RECURSIVE RStripChars(_, _)
\* str.rstrip(chars): s without its trailing characters of cs.
RStripChars(s, cs) ==
  IF s # <<>> /\ s[Len(s)] \in cs
  THEN RStripChars(SubSeq(s, 1, Len(s) - 1), cs) ELSE s

RECURSIVE Number(_)
\* The natural number written by the digits ds.
Number(ds) ==
  IF ds = <<>> THEN 0
  ELSE Number(SubSeq(ds, 1, Len(ds) - 1)) * Len(DigitChars)
         + (CHOOSE d \in 0..(Len(DigitChars) - 1) :
              DigitChars[d + 1] = ds[Len(ds)])

\* float(s) for a string s that f"{x:.3f}" printed, in thousandths.
Float(s) ==
  LET neg  == s # <<>> /\ s[1] = "-"
      body == IF neg THEN Tail(s) ELSE s
      dot  == CHOOSE i \in 1..Len(body) : body[i] = "."
      n    == Number(SubSeq(body, 1, dot - 1)) * 1000
                + Number(SubSeq(body, dot + 1, Len(body)))
  IN  IF neg THEN 0 - n ELSE n

RECURSIVE SumFloats(_)
\* sum(float(t.rstrip('s')) for t in vs), in thousandths.
SumFloats(vs) ==
  IF vs = <<>> THEN 0
  ELSE Float(RStripChars(Head(vs), {"s"})) + SumFloats(Tail(vs))

\* The total with the time of saving the upload left out.
total_process_time_after_save(vs) == SumFloats(Tail(vs))

\* voice_chat, line 126: the value of response_data["total_process_time"]
\* for the values vs of process_times.
total_process_time(vs) == SumFloats(vs)

InitReq ==
  [ filename          |-> <<>>,
    file_ext          |-> <<>>,
    process_times     |-> <<>>,
    process_values    |-> <<>>,
    response_data     |-> <<>>,
    user_text         |-> NoText,
    response_text     |-> NoText,
    ai_response       |-> NoText,
    audio_output_path |-> NoPath,
    status            |-> 0,
    detail            |-> "none",
    events            |-> <<>>,
    stt_proc          |-> "notrun",
    llm_outcome       |-> "notrun",
    save_outcome      |-> "notrun",
    tts_missing       |-> "unchecked",
    tts_proc          |-> "notrun",
    sample            |-> "unchecked" ]

Event(e, arg) == [e |-> e, arg |-> arg]

Turn(role, text) == [role |-> role, text |-> text]

\* One exchange a previous run of the server may have left in the file.
PriorExchange == << Turn("user", <<"pagi">>), Turn("model", <<"pagi">>) >>

\* load_chat_history: the history the process starts with, by the file.
load_chat_history(f) ==
  IF f.state = "valid" THEN f.content ELSE <<>>

HistoryFiles ==
  { [state |-> "absent", content |-> <<>>],
    [state |-> "valid", content |-> PriorExchange] }

Init ==
  /\ pc = [r \in Requests |-> "idle"]
  /\ loop = 0
  /\ shutdown = FALSE
  /\ req = [r \in Requests |-> InitReq]
  /\ dirs = {}
  /\ files = {}
  /\ TEMP_FILES = <<>>
  /\ historyFile \in HistoryFiles
  /\ history = load_chat_history(historyFile)
  /\ calls = <<>>

\* ---------------------------------------------------------------- requests

\* A client sends a request; requests are numbered in the order they arrive.
Arrive(r) ==
  /\ pc[r] = "idle"
  /\ ~shutdown
  /\ \A p \in 1..(r - 1) : pc[p] # "idle"
  /\ pc' = [pc EXCEPT ![r] = "pending"]
  /\ UNCHANGED << loop, shutdown, req, dirs, files, TEMP_FILES, history,
                  historyFile, calls >>

\* A handler starts whatever the event loop is running (a handler run in
\* a thread pool).
LoopNeverBusy(r) == TRUE

\* The event loop runs a handler only when it runs no other one.
LoopFree(r) == loop = 0

\* The event loop goes on with the handler it is running.
OnLoop(r) == loop = r

\* Leave with the directory made by mkdtemp and never removed.
LeaveKeepingScope(r, q, ds, fs, st, det) ==
  /\ req' = [req EXCEPT ![r] =
       [q EXCEPT !.status = st, !.detail = det,
                 !.events = Append(q.events, Event("close_scope", <<>>))]]
  /\ dirs' = ds
  /\ files' = fs
  /\ pc' = [pc EXCEPT ![r] = "done"]

\* The handler of r leaves `with tempfile.TemporaryDirectory() as tmpdir`
\* with the outcome (status, detail): the scope directory is removed.
Leave(r, q, ds, fs, st, det) ==
  /\ req' = [req EXCEPT ![r] =
       [q EXCEPT !.status = st, !.detail = det,
                 !.events = Append(q.events, Event("close_scope", <<>>))]]
  /\ dirs' = ds \ {Path("scope", r)}
  /\ files' = FilesWithout(fs, Path("scope", r))
  /\ pc' = [pc EXCEPT ![r] = "done"]

\* voice_chat, lines 60-72: the extension check and the scope's creation.
Validate(r, fn) ==
  /\ pc[r] = "pending"
  /\ ~shutdown
  /\ LoopFree(r)
  /\ loop' = r
  /\ LET q == [req[r] EXCEPT !.filename = fn, !.file_ext = FileExt(fn)]
     IN  IF ~Allowed(q.file_ext)
         THEN /\ req' = [req EXCEPT ![r] =
                   [q EXCEPT !.status = 400, !.detail = "format"]]
              /\ pc' = [pc EXCEPT ![r] = "done"]
              /\ UNCHANGED dirs
         ELSE /\ req' = [req EXCEPT ![r] =
                   [q EXCEPT !.events =
                      Append(q.events, Event("open_scope", <<>>))]]
              /\ dirs' = dirs \cup {Path("scope", r)}
              /\ pc' = [pc EXCEPT ![r] = "save"]
  /\ UNCHANGED << shutdown, files, TEMP_FILES, history, historyFile, calls >>

\* voice_chat, lines 73-84: the upload is written into the scope.
SaveAudio(r, ok, t) ==
  /\ pc[r] = "save"
  /\ OnLoop(r)
  /\ LET q == [req[r] EXCEPT !.events = Append(@, Event("save", <<>>))]
     IN  IF ok
         THEN /\ files' = files \cup {Path("upload", r)}
              /\ req' = [req EXCEPT ![r] =
                   [q EXCEPT !.process_times = Append(@, "save_audio"),
                             !.process_values = Append(@, Format(t))]]
              /\ pc' = [pc EXCEPT ![r] = "stt"]
              /\ UNCHANGED dirs
         ELSE Leave(r, q, dirs, files, 500, "save")
  /\ UNCHANGED << loop, shutdown, TEMP_FILES, history, historyFile, calls >>

\* ------------------------------------------------------------ speech to text

\* How a run of the whisper CLI can end: exit status 0 with transcription.txt
\* written, a non-zero exit status, exit status 0 without the file, or the
\* binary cannot be started (subprocess.run raises OSError).
ProcOutcomes == {"ok", "nonzero", "ok_nofile", "oserror"}

ErrWhisper == << "[ERROR]", "Whisper failed" >>

ErrNoTranscription == << "[ERROR]", "Transcription file not found" >>

\* transcribe_speech_to_text, lines 46-56: what the call gives voice_chat
\* for each way the subprocess can end.
SttReturn(proc, text) ==
  CASE proc = "oserror"   -> [raised |-> TRUE, text |-> NoText]
    [] proc = "nonzero"   -> [raised |-> FALSE, text |-> ErrWhisper]
    [] proc = "ok_nofile" -> [raised |-> FALSE, text |-> ErrNoTranscription]
    [] OTHER              -> [raised |-> FALSE, text |-> text]

\* voice_chat, lines 87-91, and transcribe_speech_to_text, lines 28-35: the
\* upload is read back, and its bytes are written into a directory of the
\* transcriber's own.
SttStart(r) ==
  /\ pc[r] = "stt"
  /\ OnLoop(r)
  /\ Path("upload", r) \in files
  /\ dirs' = dirs \cup {Path("sttdir", r)}
  /\ files' = files \cup {Path("sttaudio", r)}
  /\ req' = [req EXCEPT ![r].events =
       Append(Append(@, Event("open_sttdir", <<>>)),
              Event("stt", req[r].file_ext))]
  /\ pc' = [pc EXCEPT ![r] = "stt_run"]
  /\ UNCHANGED << loop, shutdown, TEMP_FILES, history, historyFile, calls >>

\* transcribe_speech_to_text, lines 46-56, and voice_chat, lines 92-98.
SttFinish(r, proc, text, t) ==
  /\ pc[r] = "stt_run"
  /\ OnLoop(r)
  /\ LET ret == SttReturn(proc, text)
         fs  == FilesWithout(files, Path("sttdir", r))
         q   == [req[r] EXCEPT !.stt_proc = proc,
                   !.events = Append(@, Event("close_sttdir", <<>>))]
     IN  IF ret.raised
         THEN Leave(r, q, dirs \ {Path("sttdir", r)}, fs, 500, "stt")
         ELSE /\ req' = [req EXCEPT ![r] =
                   [q EXCEPT !.user_text = ret.text,
                             !.process_times = Append(@, "speech_to_text"),
                             !.process_values = Append(@, Format(t)),
                             !.response_data =
                                ("transcribed_text" :> ret.text) @@ @]]
              /\ dirs' = dirs \ {Path("sttdir", r)}
              /\ files' = fs
              /\ pc' = [pc EXCEPT ![r] = "llm"]
  /\ UNCHANGED << loop, shutdown, TEMP_FILES, history, historyFile, calls >>

\* ------------------------------------------------------------------ responder

ErrLlm == << "[ERROR]", "collaborator error" >>

ErrNoResponse == << "[ERROR]", "No response from model" >>

\* generate_response with the collaborator's exception left to propagate.
LlmReturnPropagating(outcome, text) ==
  IF outcome = "raise"
  THEN [raised |-> TRUE, text |-> NoText]
  ELSE [raised |-> FALSE,
        text |-> IF text # <<>> THEN text ELSE ErrNoResponse]

\* generate_response, lines 65-71: what the call gives voice_chat, by how
\* chat.send_message ended and the text of its response.  Every exception
\* is caught, so the call never raises.
LlmReturn(outcome, text) ==
  IF outcome = "raise"
  THEN [raised |-> FALSE, text |-> ErrLlm]
  ELSE [raised |-> FALSE,
        text |-> IF text # <<>> THEN text ELSE ErrNoResponse]

\* voice_chat, lines 104-110: the reply is kept and the stage is timed, or
\* an exception of generate_response ends the request.
AfterLlm(r, q, ret, t) ==
  IF ret.raised
  THEN Leave(r, q, dirs, files, 500, "llm")
  ELSE /\ req' = [req EXCEPT ![r] =
            [q EXCEPT !.ai_response = ret.text,
                      !.process_times = Append(@, "llm_response"),
                      !.process_values = Append(@, Format(t)),
                      !.response_data = ("ai_response" :> ret.text) @@ @]]
       /\ pc' = [pc EXCEPT ![r] = "tts"]
       /\ UNCHANGED << dirs, files >>

\* chat.history after a send_message that succeeded.
HistoryAfter(h, prompt, text) ==
  h \o << Turn("user", prompt), Turn("model", text) >>

\* save_chat_history with the file opened in append mode.
save_chat_history_appending(f, h, outcome) ==
  CASE outcome = "ok"        -> [state |-> "valid", content |-> f.content \o h]
    [] outcome = "dump_fail" -> [state |-> "partial", content |-> <<>>]
    [] OTHER                 -> f

\* save_chat_history, lines 44-49: the file after the call.  open(.., "w")
\* truncates the file before json.dump writes it; an error of either is
\* caught and printed.
save_chat_history(f, h, outcome) ==
  CASE outcome = "ok"        -> [state |-> "valid", content |-> h]
    [] outcome = "dump_fail" -> [state |-> "partial", content |-> <<>>]
    [] OTHER                 -> f

SaveOutcomes == {"ok", "open_fail", "dump_fail"}

\* The index in calls of the call request r made.
CallOf(r) == CHOOSE i \in 1..Len(calls) : calls[i].req = r

\* voice_chat, lines 101-103, and generate_response, lines 66-67: the stripped
\* transcript is sent to the conversational collaborator.
LlmCall(r) ==
  /\ pc[r] = "llm"
  /\ OnLoop(r)
  /\ LET prompt == Strip(req[r].user_text)
     IN  /\ req' = [req EXCEPT ![r].events = Append(@, Event("llm", prompt)),
                               ![r].llm_outcome = "inflight"]
         /\ calls' = Append(calls,
              [req |-> r, prompt |-> prompt, outcome |-> "inflight",
               text |-> NoText])
  /\ pc' = [pc EXCEPT ![r] = "llm_wait"]
  /\ UNCHANGED << loop, shutdown, dirs, files, TEMP_FILES, history,
                  historyFile >>

\* generate_response, lines 67 and 70-71: the collaborator answers, and the
\* exchange is appended to chat.history, or chat.send_message raises, and
\* voice_chat (lines 104-106) goes on with the sentinel string.
LlmReply(r, outcome, text, t) ==
  /\ pc[r] = "llm_wait"
  /\ OnLoop(r)
  /\ calls' = [calls EXCEPT ![CallOf(r)].outcome = outcome,
                            ![CallOf(r)].text = text]
  /\ IF outcome = "ok"
     THEN /\ history' = HistoryAfter(history, calls[CallOf(r)].prompt, text)
          /\ req' = [req EXCEPT ![r].response_text = text,
                                ![r].llm_outcome = outcome]
          /\ pc' = [pc EXCEPT ![r] = "llm_save"]
          /\ UNCHANGED << dirs, files >>
     ELSE /\ AfterLlm(r, [req[r] EXCEPT !.llm_outcome = outcome],
                      LlmReturn(outcome, text), t)
          /\ UNCHANGED history
  /\ UNCHANGED << loop, shutdown, TEMP_FILES, historyFile >>

\* generate_response, lines 68-69, and voice_chat, lines 104-106: the history
\* is written to chat_history.json and the reply is returned.
LlmSave(r, outcome, t) ==
  /\ pc[r] = "llm_save"
  /\ OnLoop(r)
  /\ historyFile' = save_chat_history(historyFile, history, outcome)
  /\ AfterLlm(r, [req[r] EXCEPT !.save_outcome = outcome],
              LlmReturn("ok", req[r].response_text), t)
  /\ UNCHANGED << loop, shutdown, TEMP_FILES, history, calls >>

\* ---------------------------------------------------------------- synthesizer

\* The first of the model, config and speakers files that does not exist,
\* in the order _tts_with_coqui checks them, or "none".
MissingArtifacts == {"none", "Model file", "Config file", "Speakers file"}

\* The sample-copy strategy, tts.py lines 48-54, 79-86 and 90-97: the path of
\* a new copy of test_output.wav, or an error string when there is no sample.
Fallback(sample) == IF sample THEN "fallback" ELSE "errstr"

\* _tts_with_coqui, lines 40-54: the result when an artifact is missing.
TtsMissingReturn(sample) == Fallback(sample)

\* _tts_with_coqui with CalledProcessError left to propagate.
TtsReturnRaisingOnExit(proc, sample) ==
  CASE proc \in {"oserror", "nonzero"} -> [raised |-> TRUE, kind |-> "none"]
    [] proc = "ok"      -> [raised |-> FALSE, kind |-> "tts"]
    [] OTHER            -> [raised |-> FALSE, kind |-> Fallback(sample)]

\* _tts_with_coqui, lines 57-97: the result by how the tts subprocess ended.
TtsReturn(proc, sample) ==
  CASE proc = "oserror" -> [raised |-> TRUE, kind |-> "none"]
    [] proc = "ok"      -> [raised |-> FALSE, kind |-> "tts"]
    [] OTHER            -> [raised |-> FALSE, kind |-> Fallback(sample)]

\* What os.path.exists(sample_audio) told the synthesizer.
SampleSeen(sample) == IF sample THEN "present" ELSE "absent"

\* The kinds of result of the synthesizer that are files it has written.
WrittenKinds == {"tts", "fallback"}

\* Respond with the stage timed only when the synthesizer wrote its own
\* output.
RespondTimingSynthesisOnly(r, q, k, t) ==
  /\ TEMP_FILES' = Append(TEMP_FILES, Path(k, r))
  /\ Leave(r,
           [q EXCEPT !.audio_output_path = Path(k, r),
                     !.process_times =
                        IF k = "tts" THEN Append(@, "text_to_speech") ELSE @,
                     !.process_values =
                        IF k = "tts" THEN Append(@, Format(t)) ELSE @],
           dirs,
           IF k \in WrittenKinds THEN files \cup {Path(k, r)} ELSE files,
           200, "none")

\* voice_chat, lines 116-137, after transcribe_text_to_speech returned a
\* value of kind k: the value is tracked in TEMP_FILES, the stage is timed,
\* the scope is left, process_times and the total go into response_data
\* and the FileResponse is built.
Respond(r, q, k, t) ==
  /\ TEMP_FILES' = Append(TEMP_FILES, Path(k, r))
  /\ Leave(r,
           LET pt == Append(q.process_times, "text_to_speech")
               pv == Append(q.process_values, Format(t))
           IN  [q EXCEPT !.audio_output_path = Path(k, r),
                         !.process_times = pt,
                         !.process_values = pv,
                         !.response_data =
                            ("total_process_time" :> total_process_time(pv))
                              @@ ("process_times" :>
                                    [keys |-> pt, values |-> pv])
                              @@ @],
           dirs,
           IF k \in WrittenKinds THEN files \cup {Path(k, r)} ELSE files,
           200, "none")

\* voice_chat, lines 113-115, and _tts_with_coqui, lines 35-54: the model
\* artifacts are looked for; when one is missing the sample is copied.
TtsStart(r, missing, sample, t) ==
  /\ pc[r] = "tts"
  /\ OnLoop(r)
  /\ LET q == [req[r] EXCEPT
                 !.events = Append(@, Event("tts", req[r].ai_response)),
                 !.tts_missing = missing]
     IN  IF missing = "none"
         THEN /\ req' = [req EXCEPT ![r] = q]
              /\ pc' = [pc EXCEPT ![r] = "tts_run"]
              /\ UNCHANGED << dirs, files, TEMP_FILES >>
         ELSE Respond(r, [q EXCEPT !.sample = SampleSeen(sample)],
                      TtsMissingReturn(sample), t)
  /\ UNCHANGED << loop, shutdown, history, historyFile, calls >>

\* _tts_with_coqui, lines 57-97, and voice_chat, lines 116-137: the tts
\* subprocess ends.
TtsFinish(r, proc, sample, t) ==
  /\ pc[r] = "tts_run"
  /\ OnLoop(r)
  /\ LET ret == TtsReturn(proc, sample)
         q   == [req[r] EXCEPT !.tts_proc = proc,
                   !.sample = IF proc \in {"nonzero", "ok_nofile"}
                              THEN SampleSeen(sample) ELSE @]
     IN  IF ret.raised
         THEN /\ Leave(r, q, dirs, files, 500, "tts")
              /\ UNCHANGED TEMP_FILES
         ELSE Respond(r, q, ret.kind, t)
  /\ UNCHANGED << loop, shutdown, history, historyFile, calls >>

\* ------------------------------------------------------------------ transport

\* voice_chat returns or raises: the response goes to the client, the
\* handler's local variables are gone and the event loop is free for
\* another handler.
Return(r) ==
  /\ pc[r] = "done"
  /\ OnLoop(r)
  /\ loop' = 0
  /\ req' = [req EXCEPT ![r] = InitReq]
  /\ pc' = [pc EXCEPT ![r] = "delivered"]
  /\ UNCHANGED << shutdown, dirs, files, TEMP_FILES, history, historyFile,
                  calls >>

\* The paths of a sequence.
Range(s) == {s[i] : i \in 1..Len(s)}

\* cleanup_temp_files, lines 33-42: every tracked path that exists is
\* removed, except those os.remove fails on (stuck).
cleanup_temp_files(fs, stuck) == fs \ (Range(TEMP_FILES) \ stuck)

\* The server shuts down: no handler is running and none starts afterwards.
Shutdown ==
  /\ ~shutdown
  /\ loop = 0
  /\ shutdown' = TRUE
  /\ \E stuck \in SUBSET (Range(TEMP_FILES) \cap files) :
       files' = cleanup_temp_files(files, stuck)
  /\ UNCHANGED << pc, loop, req, dirs, TEMP_FILES, history, historyFile,
                  calls >>

Next ==
  \/ \E r \in Requests : Arrive(r)
  \/ \E r \in Requests, fn \in Filenames : Validate(r, fn)
  \/ \E r \in Requests, ok \in BOOLEAN, t \in Tick : SaveAudio(r, ok, t)
  \/ \E r \in Requests : SttStart(r)
  \/ \E r \in Requests, proc \in ProcOutcomes, text \in TranscriptTexts,
          t \in Tick :
       SttFinish(r, proc, text, t)
  \/ \E r \in Requests : LlmCall(r)
  \/ \E r \in Requests, outcome \in {"ok", "raise"}, text \in ReplyTexts,
          t \in Tick :
       LlmReply(r, outcome, text, t)
  \/ \E r \in Requests, outcome \in SaveOutcomes, t \in Tick :
       LlmSave(r, outcome, t)
  \/ \E r \in Requests, missing \in MissingArtifacts, sample \in BOOLEAN,
          t \in Tick :
       TtsStart(r, missing, sample, t)
  \/ \E r \in Requests, proc \in ProcOutcomes, sample \in BOOLEAN,
          t \in Tick :
       TtsFinish(r, proc, sample, t)
  \/ \E r \in Requests : Return(r)
  \/ Shutdown

Spec == Init /\ [][Next]_vars

\* The request that arrives first.
FirstRequest == {r \in Requests : \A p \in Requests : r <= p}

\* One request served alone, its stages taking every time of Elapsed.
NextTimed ==
  \/ \E r \in FirstRequest : Arrive(r)
  \/ \E r \in FirstRequest, fn \in Filenames : Validate(r, fn)
  \/ \E r \in FirstRequest, ok \in BOOLEAN, t \in Elapsed : SaveAudio(r, ok, t)
  \/ \E r \in FirstRequest : SttStart(r)
  \/ \E r \in FirstRequest, proc \in ProcOutcomes, text \in TranscriptTexts,
          t \in Elapsed :
       SttFinish(r, proc, text, t)
  \/ \E r \in FirstRequest : LlmCall(r)
  \/ \E r \in FirstRequest, outcome \in {"ok", "raise"}, text \in ReplyTexts,
          t \in Elapsed :
       LlmReply(r, outcome, text, t)
  \/ \E r \in FirstRequest, outcome \in SaveOutcomes, t \in Elapsed :
       LlmSave(r, outcome, t)
  \/ \E r \in FirstRequest, missing \in MissingArtifacts, sample \in BOOLEAN,
          t \in Elapsed :
       TtsStart(r, missing, sample, t)
  \/ \E r \in FirstRequest, proc \in ProcOutcomes, sample \in BOOLEAN,
          t \in Elapsed :
       TtsFinish(r, proc, sample, t)
  \/ \E r \in FirstRequest : Return(r)
  \/ Shutdown

SpecTimed == Init /\ [][NextTimed]_vars

\* =================================================================== claims

\* The events of request r named e.
EventsOf(r, e) == {i \in 1..Len(req[r].events) : req[r].events[i].e = e}

Count(r, e) == Cardinality(EventsOf(r, e))

\* The handler of request r has returned or raised and is about to hand
\* its outcome to the transport.
Done(r) == pc[r] = "done"

\* Request r passed the extension check.
Validated(r) == Count(r, "open_scope") > 0

\* The files and directories on disk that the handler of r created.
ArtifactsOf(r) == {f \in files \cup dirs : f.r = r}

\* ------------------------------------------------------------------- C1
\* C1: every file artifact a validated request created (the saved upload, the
\* transcriber's files, the synthesized or fallback audio in the shared temp
\* area) is deleted after the request's response has been delivered, without
\* a server shutdown.  Stated on the states in which every request has been
\* answered and the server has not shut down: from there only the shutdown
\* handler can still remove a file.
C1_ArtifactsDeletedAfterDelivery ==
  ((\A r \in Requests : pc[r] = "delivered") /\ ~shutdown)
    => \A r \in Requests : ArtifactsOf(r) = {}

C3_TranscriptionFailureIsHard ==
  \A r \in Requests :
    (Done(r) /\ req[r].stt_proc \in {"nonzero", "ok_nofile"}) =>
      /\ req[r].status = 500
      /\ req[r].detail = "stt"
      /\ Count(r, "llm") = 0
      /\ Count(r, "tts") = 0
      /\ Count(r, "stt") = 1

\* ------------------------------------------------------------------- C4
\* The uploads of Filenames whose lower-cased extension is .wav, .mp3, .ogg
\* or .m4a, written out.
ValidUploads ==
  { <<"a", ".", "w", "a", "v">>, <<"a", ".", "W", "A", "V">>,
    <<"a", ".", "m", "p", "3">>, <<"a", ".", "o", "g", "g">>,
    <<"a", ".", "m", "4", "a">> }

\* The rejection of C4: HTTP 400 naming the allowed formats, no stage run,
\* nothing created, no timing.
Rejected(r) ==
  /\ req[r].status = 400
  /\ req[r].detail = "format"
  /\ req[r].events = <<>>
  /\ req[r].process_times = <<>>
  /\ ArtifactsOf(r) = {}

\* C4 (as claimed): an upload whose lower-cased extension is allowed proceeds
\* to the save step and the Transcriber is invoked; any other upload is
\* rejected with HTTP 400 before any stage runs.
C4_AllowedReachesTranscriber ==
  \A r \in Requests :
    Done(r) =>
      IF req[r].filename \in ValidUploads
      THEN Count(r, "save") = 1 /\ Count(r, "stt") = 1
      ELSE Rejected(r)

\* The state part of C4 as amended.
C4_State ==
  \A r \in Requests :
    /\ pc[r] \in Running =>
         (req[r].filename \in ValidUploads <=> req[r].status # 400)
    /\ Done(r) =>
         IF req[r].filename \in ValidUploads
         THEN /\ Count(r, "save") = 1
              /\ Count(r, "stt") = (IF req[r].detail = "save" THEN 0 ELSE 1)
         ELSE Rejected(r)

\* The step part of C4 as amended: the step that takes up a request sends an
\* allowed upload to the save step with the scratch directory created, and
\* rejects any other upload leaving the disk, TEMP_FILES and the
\* conversation as they were.
C4_Step ==
  \A r \in Requests :
    (pc[r] = "pending" /\ pc'[r] # "pending") =>
      IF req'[r].filename \in ValidUploads
      THEN pc'[r] = "save" /\ Path("scope", r) \in dirs'
      ELSE /\ Done(r)'
           /\ Rejected(r)'
           /\ UNCHANGED << dirs, files, TEMP_FILES, history, historyFile,
                           calls >>

\* C4 (amended): an upload whose lower-cased extension is allowed proceeds to
\* the save step, and the Transcriber is invoked unless saving the upload
\* fails (HTTP 500); any other upload is rejected with HTTP 400 before any
\* stage runs: no scratch directory, no file, empty process_times, TEMP_FILES
\* and the conversation unchanged.
C4_ExtensionGate == [](C4_State) /\ [][C4_Step]_vars

\* C4 witness: after an earlier request left TEMP_FILES and the conversation
\* non-empty, the upload ".wav" (no extension: the name starts with its only
\* dot) has been rejected.
C4_Witness ==
  \E r \in Requests :
    /\ Done(r)
    /\ req[r].filename = <<".", "w", "a", "v">>
    /\ req[r].status = 400
    /\ TEMP_FILES # <<>>
    /\ calls # <<>>

\* ------------------------------------------------------------------- C5
\* The synthesizer of request r needed its fallback: an artifact was missing,
\* or the tts subprocess exited non-zero or left no output file.
FallbackNeeded(r) ==
  \/ req[r].tts_missing \in (MissingArtifacts \ {"none"})
  \/ req[r].tts_proc \in {"nonzero", "ok_nofile"}

\* C5: when the Synthesizer cannot produce audio and the fallback sample is
\* absent too, the request ends as HTTP 500 naming the text-to-speech stage,
\* and no request ends as a success whose audio path is not an existing file.
C5_SynthFailureIsHard ==
  \A r \in Requests :
    Done(r) =>
      /\ (FallbackNeeded(r) /\ req[r].sample = "absent") =>
           (req[r].status = 500 /\ req[r].detail = "tts")
      /\ req[r].status = 200 => req[r].audio_output_path \in files

\* ------------------------------------------------------------------- C6
\* C6: provided the fallback sample exists, a missing model artifact, a
\* non-zero exit of the tts subprocess or a missing output file does not fail
\* the request: the synthesizer returns the path of a copy of the sample it
\* has just written, and the request ends as HTTP 200 with that audio and a
\* text_to_speech timing entry.
C6_FallbackKeepsRequestAlive ==
  \A r \in Requests :
    (Done(r) /\ FallbackNeeded(r) /\ req[r].sample = "present") =>
      /\ req[r].status = 200
      /\ req[r].audio_output_path = Path("fallback", r)
      /\ req[r].audio_output_path \in files
      /\ req[r].process_times # <<>>
      /\ req[r].process_times[Len(req[r].process_times)] = "text_to_speech"

\* C6 witness: the tts subprocess exited non-zero, the sample existed, and the
\* request succeeded with the copy.
C6_Witness ==
  \E r \in Requests :
    /\ Done(r)
    /\ req[r].tts_proc = "nonzero"
    /\ req[r].sample = "present"
    /\ req[r].status = 200

\* ------------------------------------------------------------------- C7
\* C7: an error of the conversational collaborator never makes voice_chat
\* answer 500 for the LLM stage: generate_response returns an "[ERROR] ..."
\* string, the llm_response stage is timed, and the string is what the
\* Synthesizer is invoked with before the request is done.
C7_ResponderFailureIsSoft ==
  \A r \in Requests :
    /\ req[r].detail # "llm"
    /\ req[r].llm_outcome = "raise" =>
         /\ pc[r] \in {"tts", "tts_run", "done"}
         /\ Head(req[r].ai_response) = "[ERROR]"
         /\ \E i \in 1..Len(req[r].process_times) :
              req[r].process_times[i] = "llm_response"
    /\ (Done(r) /\ req[r].llm_outcome = "raise") =>
         /\ Count(r, "tts") = 1
         /\ \A i \in EventsOf(r, "tts") :
              req[r].events[i].arg = req[r].ai_response

\* C7 witness: the collaborator raised and the request still succeeded.
C7_Witness ==
  \E r \in Requests :
    /\ Done(r)
    /\ req[r].llm_outcome = "raise"
    /\ req[r].status = 200

\* ------------------------------------------------------------------- C8
\* The requests with an exchange of generate_response in flight: the turn
\* has been sent, and the reply is not yet appended and persisted.
InFlight == {r \in Requests : pc[r] \in {"llm_wait", "llm_save"}}

\* h consists of whole exchanges: a user turn followed by a model turn.
WholeExchanges(h) ==
  /\ Len(h) % 2 = 0
  /\ \A i \in 1..Len(h) :
       h[i].role = (IF i % 2 = 1 THEN "user" ELSE "model")

IsPrefix(s, t) == Len(s) <= Len(t) /\ s = SubSeq(t, 1, Len(s))

\* C8: with several requests in the server at once, at most one exchange of
\* generate_response is in flight at any time, and neither the history nor a
\* written history file holds an interleaved or partly applied exchange.
C8_ExchangesSerialized ==
  /\ Cardinality(InFlight) <= 1
  /\ Cardinality({i \in 1..Len(calls) : calls[i].outcome = "inflight"}) <= 1
  /\ \A i \in 1..Len(calls) :
       calls[i].outcome = "inflight" => i = Len(calls) /\ calls[i].req \in InFlight
  /\ WholeExchanges(history)
  /\ historyFile.state = "valid" =>
       /\ WholeExchanges(historyFile.content)
       /\ IsPrefix(historyFile.content, history)

\* C8 witness: one request is waiting for the collaborator while another
\* request has arrived and waits for the event loop.
C8_Witness ==
  \E r1, r2 \in Requests :
    /\ pc[r1] = "llm_wait"
    /\ pc[r2] = "pending"

\* ------------------------------------------------------------------- C9
RECURSIVE Exchanges(_)
\* The turns of the calls of cs that succeeded, in call order.
Exchanges(cs) ==
  IF cs = <<>> THEN <<>>
  ELSE LET c == Head(cs)
       IN  (IF c.outcome = "ok"
            THEN << Turn("user", c.prompt), Turn("model", c.text) >>
            ELSE <<>>) \o Exchanges(Tail(cs))

\* generate_response of request r has returned after a successful exchange.
Replied(r) ==
  pc[r] \in {"tts", "tts_run", "done"} /\ req[r].llm_outcome = "ok"

\* C9: when generate_response returns after a successful exchange, the
\* history file has been written and equals the history in memory, that
\* exchange included; when the write fails the reply is returned all the
\* same.  The history is what the process loaded followed by the successful
\* exchanges in call order; from a cleared history, exactly those exchanges.
C9_HistoryPersisted ==
  /\ \A r \in Requests :
       Replied(r) =>
         /\ req[r].save_outcome \in SaveOutcomes
         /\ req[r].save_outcome = "ok" =>
              historyFile = [state |-> "valid", content |-> history]
         /\ Len(history) >= 2
         /\ history[Len(history)] = Turn("model", req[r].response_text)
         /\ history[Len(history) - 1] =
              Turn("user", Strip(req[r].user_text))
         /\ req[r].ai_response =
              (IF req[r].response_text = <<>> THEN ErrNoResponse
               ELSE req[r].response_text)
         /\ req[r].detail # "llm"
  /\ \/ history = Exchanges(calls)
     \/ history = PriorExchange \o Exchanges(calls)
  /\ (history = <<>> \/ history[1] # PriorExchange[1]) =>
       history = Exchanges(calls)

\* C9 witness: the second successful call has returned after a failed write
\* of the history file, and the history holds both exchanges.
C9_Witness ==
  \E r \in Requests :
    /\ Replied(r)
    /\ req[r].save_outcome = "dump_fail"
    /\ Len(calls) = 2
    /\ calls[1].outcome = "ok"
    /\ Len(history) = 4

\* ------------------------------------------------------------------- C10
\* The keys of process_times in pipeline order.
StageOrder ==
  << "save_audio", "speech_to_text", "llm_response", "text_to_speech" >>

\* The event that shows the stage of a key was executed.
StageEvent(key) ==
  CASE key = "save_audio"     -> "save"
    [] key = "speech_to_text" -> "stt"
    [] key = "llm_response"   -> "llm"
    [] OTHER                  -> "tts"

\* C10: at every point of every request the keys of process_times are a
\* prefix of save_audio, speech_to_text, llm_response, text_to_speech, a key
\* is there only if the request executed its stage, a rejected upload leaves
\* process_times empty, and a request served through the Synthesizer's
\* fallback has its text_to_speech entry.
C10_TimingsFollowStages ==
  \A r \in Requests :
    /\ IsPrefix(req[r].process_times, StageOrder)
    /\ \A i \in 1..Len(req[r].process_times) :
         Count(r, StageEvent(req[r].process_times[i])) = 1
    /\ req[r].status = 400 => req[r].process_times = <<>>
    /\ (Done(r) /\ req[r].audio_output_path.k = "fallback") =>
         req[r].process_times = StageOrder

\* C10 witness: a request served with the fallback copy has all four keys.
C10_Witness ==
  \E r \in Requests :
    /\ Done(r)
    /\ req[r].audio_output_path.k = "fallback"
    /\ req[r].tts_missing = "Config file"
    /\ req[r].process_times = StageOrder

\* ------------------------------------------------------------------- C11
\* The stages of the pipeline, in order, by the event of their invocation.
PipelineEvents == << "save", "stt", "llm", "tts" >>

RECURSIVE StagesRun(_)
\* The stage invocations among the events es, in the order they happened.
StagesRun(es) ==
  IF es = <<>> THEN <<>>
  ELSE (IF \E i \in 1..Len(PipelineEvents) : PipelineEvents[i] = Head(es).e
        THEN << Head(es).e >> ELSE <<>>) \o StagesRun(Tail(es))

\* The order part of C11: the stages invoked so far are a prefix of save,
\* transcribe, respond, synthesize (so none runs twice and none is retried),
\* a stage is invoked only after the stage before it was timed, the
\* Responder gets the transcript (stripped) and the Synthesizer the reply,
\* and a finished request has one outcome.
C11_Order ==
  \A r \in Requests :
    /\ IsPrefix(StagesRun(req[r].events), PipelineEvents)
    /\ Len(StagesRun(req[r].events)) <= Len(req[r].process_times) + 1
    /\ \A i \in EventsOf(r, "llm") :
         req[r].events[i].arg = Strip(req[r].user_text)
    /\ \A i \in EventsOf(r, "tts") :
         req[r].events[i].arg = req[r].ai_response
    /\ Done(r) => req[r].status \in {200, 400, 500}
    /\ (Done(r) /\ req[r].status = 200) =>
         StagesRun(req[r].events) = PipelineEvents

\* The hard failures of the transcriber, as C3 has them: the subprocess
\* cannot be run, exits non-zero, or leaves no transcription file.
TranscriberFailedHard(r) ==
  req[r].stt_proc \in {"oserror", "nonzero", "ok_nofile"}

\* C11: within one request the stages run strictly in the order save,
\* transcribe, respond, synthesize, each at most once, each only after the
\* stage before it completed without a hard failure and with that stage's
\* output as its input; nothing is retried and the request ends in exactly
\* one of success or failure.
C11_StagesInOrder ==
  /\ C11_Order
  /\ \A r \in Requests :
       TranscriberFailedHard(r) => Count(r, "llm") = 0 /\ Count(r, "tts") = 0

\* ------------------------------------------------------------------- C12
MetadataKeys ==
  {"transcribed_text", "ai_response", "process_times", "total_process_time"}

\* C12: every 200 response of voice_chat carries the metadata
\* transcribed_text, ai_response, process_times and total_process_time, in
\* which process_times has exactly the four entries save_audio,
\* speech_to_text, llm_response and text_to_speech, and total_process_time
\* is the sum of the four reported values.
C12_MetadataComplete ==
  \A r \in Requests :
    (Done(r) /\ req[r].status = 200) =>
      LET d == req[r].response_data
      IN  /\ DOMAIN d = MetadataKeys
          /\ d.transcribed_text = req[r].user_text
          /\ d.ai_response = req[r].ai_response
          /\ d.process_times.keys = StageOrder
          /\ Len(d.process_times.values) = Len(StageOrder)
          /\ \A i \in 1..Len(d.process_times.values) :
               LET v == d.process_times.values[i]
               IN  v[Len(v)] = "s" /\ v[Len(v) - 1] # "s"
          /\ d.total_process_time =
               Float(RStripChars(d.process_times.values[1], {"s"}))
                 + Float(RStripChars(d.process_times.values[2], {"s"}))
                 + Float(RStripChars(d.process_times.values[3], {"s"}))
                 + Float(RStripChars(d.process_times.values[4], {"s"}))

\* C12 witness: a 200 response whose four reported times are rounded up,
\* rounded down and negative, with their sum as the total.
C12_Witness ==
  \E r \in Requests :
    /\ Done(r) /\ req[r].status = 200
    /\ req[r].response_data.process_times.values =
         << << "0", ".", "2", "3", "5", "s" >>,
            << "0", ".", "0", "0", "0", "s" >>,
            << "-", "0", ".", "0", "0", "1", "s" >>,
            << "0", ".", "2", "3", "5", "s" >> >>
    /\ req[r].response_data.total_process_time = 469

\* ------------------------------------------------------------------- C13
\* C13: every invocation of generate_response by voice_chat passes a
\* transcript that is stripped of leading and trailing whitespace and is not
\* empty, whatever text the Transcriber returned.
C13_PromptTrimmedNonEmpty ==
  \A r \in Requests :
    \A i \in EventsOf(r, "llm") :
      /\ req[r].events[i].arg = Strip(req[r].events[i].arg)
      /\ req[r].events[i].arg # <<>>

\* ------------------------------------------------------------------- C14
\* The files on disk that hold the audio bytes request r uploaded.
AudioPayloads(r) == {f \in files : f.r = r /\ f.k \in {"upload", "sttaudio"}}

\* The synthesized (or fallback) audio files on disk that request r made.
SynthesizedAudio(r) == {f \in files : f.r = r /\ f.k \in WrittenKinds}

====
